---- MODULE Spec2Model ----
(***************************************************************************)
(* Remote signing for Hedera with three key-custody backends:              *)
(*   hsm-vault      azure-hedera-hsm.js  (Azure Key Vault, secp256k1)      *)
(*   cloud-kms      gcp-hedera-hsm.js    (Google Cloud KMS, secp256k1)     *)
(*   secret-transit unnamed/part_000     (HashiCorp Vault transit, ed25519)*)
(* Each script supplies a key fetcher and an async signer callback.  The   *)
(* model keeps byte strings as sequences of 0..255 and text as sequences   *)
(* of ASCII codes, so that every conversion is computed, not assumed.      *)
(***************************************************************************)
EXTENDS Integers, Sequences, FiniteSets, TLC

VARIABLES backend, calls, replies, sent, main

vars == <<backend, calls, replies, sent, main>>

(***************************************************************************)
(* Bounds of the model.                                                    *)
(***************************************************************************)
\* Number of call slots (promises) that can be in flight on one signer.
MaxCalls == 2
\* Payloads are the prefixes of "abcd" up to this length.
MaxPayloadLen == 3
\* Leading zero bytes a 32-byte signature component may have.
MaxElided == 2
\* Colon-delimited fields a transit signature string may have.
MaxFields == 4
\* Key points a backend may hold, besides the first.
MaxKeys == 3

(***************************************************************************)
(* Program constants.                                                      *)
(***************************************************************************)
\* r.toArray("be", 32) / s.toArray("be", 32)
CoordLen == 32
\* new Uint8Array(64)
SigLen == 64
\* data.data.signature.split(":")[2]
SigFieldIndex == 2

BackendKinds == {"hsm-vault", "cloud-kms", "secret-transit"}

(***************************************************************************)
(* Byte-string helpers.                                                    *)
(***************************************************************************)
Zeros(n) == [i \in 1..n |-> 0]

RECURSIVE StripZeros(_)
\* The magnitude of a big-endian byte string: what `new BN(raw)` keeps.
StripZeros(b) ==
  IF b = <<>> THEN <<>>
  ELSE IF b[1] = 0 THEN StripZeros(Tail(b))
  ELSE b

RECURSIVE BytesToNat(_)
\* Big-endian value of the length octets of a long-form DER length.
BytesToNat(b) ==
  IF b = <<>> THEN 0
  ELSE BytesToNat(SubSeq(b, 1, Len(b) - 1)) * 256 + b[Len(b)]

Ok(v)  == [ok |-> TRUE, val |-> v, err |-> ""]
Err(e) == [ok |-> FALSE, val |-> <<>>, err |-> e]

\* Faulty variant: pads on the wrong side.
toArrayPadRight(bn, length) ==
  IF Len(bn) > length THEN Err("byte array longer than desired length")
  ELSE Ok(bn \o Zeros(length - Len(bn)))

\* BN.prototype.toArray("be", length): the magnitude, left-padded with zero
\* bytes to `length`; asserts when the magnitude is longer than `length`.
toArray(bn, length) ==
  IF Len(bn) > length THEN Err("byte array longer than desired length")
  ELSE Ok(Zeros(length - Len(bn)) \o bn)

(***************************************************************************)
(* asn1.js DER decoder, as used by EcdsaSig.decode(signature, "der").      *)
(***************************************************************************)
\* derDecodeTag: one tag octet; only the tag number (low five bits) is
\* compared by the caller.  Multi-octet tags (low five bits all ones) never
\* name "seq" or "int" in the inputs drawn here and are reported unmatched.
derDecodeTag(buf) ==
  IF buf = <<>> THEN [ok |-> FALSE, tag |-> 0, primitive |-> TRUE, rest |-> <<>>]
  ELSE [ok |-> TRUE,
        tag |-> IF buf[1] % 32 = 31 THEN 31 ELSE buf[1] % 32,
        primitive |-> ((buf[1] \div 32) % 2 = 0),
        rest |-> Tail(buf)]

\* derDecodeLen: short form, or long form of at most four length octets.
\* The indefinite form (0x80 on a constructed item) is reported as a failure.
derDecodeLen(buf, primitive) ==
  IF buf = <<>> THEN [ok |-> FALSE, len |-> 0, rest |-> <<>>]
  ELSE LET first == buf[1] IN
    IF (~primitive) /\ first = 128 THEN [ok |-> FALSE, len |-> 0, rest |-> <<>>]
    ELSE IF first < 128 THEN [ok |-> TRUE, len |-> first, rest |-> Tail(buf)]
    ELSE LET num == first % 128 IN
      IF num > 4 \/ Len(buf) < 1 + num
      THEN [ok |-> FALSE, len |-> 0, rest |-> <<>>]
      ELSE [ok |-> TRUE,
            len |-> BytesToNat(SubSeq(buf, 2, 1 + num)),
            rest |-> SubSeq(buf, 2 + num, Len(buf))]

\* DERNode._decodeTag: tag, length, tag-number match, then buffer.skip(len).
decodeTag(buf, tag) ==
  LET t == derDecodeTag(buf) IN
  IF ~t.ok THEN [ok |-> FALSE, body |-> <<>>, rest |-> <<>>]
  ELSE LET l == derDecodeLen(t.rest, t.primitive) IN
    IF ~l.ok THEN [ok |-> FALSE, body |-> <<>>, rest |-> <<>>]
    ELSE IF t.tag # tag THEN [ok |-> FALSE, body |-> <<>>, rest |-> <<>>]
    ELSE IF l.len > Len(l.rest) THEN [ok |-> FALSE, body |-> <<>>, rest |-> <<>>]
    ELSE [ok |-> TRUE,
          body |-> SubSeq(l.rest, 1, l.len),
          rest |-> SubSeq(l.rest, l.len + 1, Len(l.rest))]

\* _decodeInt: `new bignum(raw)`: the octets read as an unsigned magnitude.
decodeInt(raw) == StripZeros(raw)

\* Faulty variant: tolerates a missing second INTEGER and reads it as zero.
EcdsaSigDecodePartial(signature) ==
  LET seq == decodeTag(signature, 16) IN
  IF ~seq.ok THEN [ok |-> FALSE, r |-> <<>>, s |-> <<>>]
  ELSE LET r == decodeTag(seq.body, 2) IN
    IF ~r.ok THEN [ok |-> FALSE, r |-> <<>>, s |-> <<>>]
    ELSE LET s == decodeTag(r.rest, 2) IN
      [ok |-> TRUE, r |-> decodeInt(r.body),
       s |-> IF s.ok THEN decodeInt(s.body) ELSE <<>>]

\* EcdsaSig = seq().obj(key("r").int(), key("s").int()), decoded from DER.
\* Any decoding error is thrown (the reporter is not in partial mode).
EcdsaSigDecode(signature) ==
  LET seq == decodeTag(signature, 16) IN
  IF ~seq.ok THEN [ok |-> FALSE, r |-> <<>>, s |-> <<>>]
  ELSE LET r == decodeTag(seq.body, 2) IN
    IF ~r.ok THEN [ok |-> FALSE, r |-> <<>>, s |-> <<>>]
    ELSE LET s == decodeTag(r.rest, 2) IN
      IF ~s.ok THEN [ok |-> FALSE, r |-> <<>>, s |-> <<>>]
      ELSE [ok |-> TRUE, r |-> decodeInt(r.body), s |-> decodeInt(s.body)]

\* kmsSigner, after the await: DER to raw r || s, or a thrown error.
kmsNormalize(signature) ==
  LET d == EcdsaSigDecode(signature) IN
  IF ~d.ok THEN Err("asn1 decode error")
  ELSE LET r == toArray(d.r, CoordLen)
           s == toArray(d.s, CoordLen) IN
    IF ~r.ok THEN r
    ELSE IF ~s.ok THEN s
    ELSE Ok(r.val \o s.val)

\* azureSigner, after the await: new Uint8Array(signResponse.result).
azureNormalize(result) == Ok(result)

(***************************************************************************)
(* Text: sequences of ASCII codes.  Base64 as Buffer implements it.        *)
(***************************************************************************)
Colon == 58
Equals == 61

\* The base64 alphabet: A-Z a-z 0-9 + /
B64Char(v) ==
  IF v < 26 THEN 65 + v
  ELSE IF v < 52 THEN 97 + (v - 26)
  ELSE IF v < 62 THEN 48 + (v - 52)
  ELSE IF v = 62 THEN 43
  ELSE 47

\* The sextet of a character, -1 when it is none.  The decoder also accepts
\* the URL-safe characters - and _.
B64Val(ch) ==
  IF ch >= 65 /\ ch <= 90 THEN ch - 65
  ELSE IF ch >= 97 /\ ch <= 122 THEN ch - 97 + 26
  ELSE IF ch >= 48 /\ ch <= 57 THEN ch - 48 + 52
  ELSE IF ch = 43 \/ ch = 45 THEN 62
  ELSE IF ch = 47 \/ ch = 95 THEN 63
  ELSE -1

\* Buffer.prototype.toString("base64"): padded standard base64, four
\* characters per group of three bytes.
base64Encode(b) ==
  LET n == Len(b)
      at(k) == IF k <= n THEN b[k] ELSE 0
      ch(j) ==
        LET g == (j - 1) \div 4
            pos == (j - 1) % 4
            v == at(3 * g + 1) * 65536 + at(3 * g + 2) * 256 + at(3 * g + 3)
        IN IF pos = 2 /\ 3 * g + 2 > n THEN Equals
           ELSE IF pos = 3 /\ 3 * g + 3 > n THEN Equals
           ELSE B64Char((v \div (CASE pos = 0 -> 262144 [] pos = 1 -> 4096
                                   [] pos = 2 -> 64 [] OTHER -> 1)) % 64)
  IN [j \in 1..(4 * ((n + 2) \div 3)) |-> ch(j)]

\* The sextets of a base64 text up to its first padding character,
\* characters outside the alphabet skipped.
Sextets(str) ==
  LET pads == {i \in 1..Len(str) : str[i] = Equals}
      stop == IF pads = {} THEN Len(str) + 1
              ELSE CHOOSE i \in pads : \A j \in pads : i <= j
      kept == SelectSeq(SubSeq(str, 1, stop - 1), LAMBDA ch : B64Val(ch) >= 0)
  IN [i \in 1..Len(kept) |-> B64Val(kept[i])]

\* Eight bits out of each run of sextets; a trailing lone sextet is dropped.
SextetsToBytes(q) ==
  LET byte(k) ==
        LET a == (8 * k) \div 6
            o == (8 * k) % 6
            pair == q[a + 1] * 64 + q[a + 2]
        IN (pair \div (CASE o = 0 -> 16 [] o = 2 -> 4 [] OTHER -> 1)) % 256
  IN [i \in 1..((Len(q) * 6) \div 8) |-> byte(i - 1)]

\* Buffer.from(text, "base64")
base64Decode(str) == SextetsToBytes(Sextets(str))

RECURSIVE split(_, _)
\* String.prototype.split(sep): the fields between separators, at least one.
split(str, sep) ==
  IF \A i \in 1..Len(str) : str[i] # sep THEN <<str>>
  ELSE LET k == CHOOSE i \in 1..Len(str) :
                  str[i] = sep /\ \A j \in 1..(i - 1) : str[j] # sep
       IN <<SubSeq(str, 1, k - 1)>> \o split(SubSeq(str, k + 1, Len(str)), sep)

\* vaultSigner, after the await:
\*   Buffer.from(data.data.signature.split(":")[2], "base64")
\* Index 2 of fewer than three fields is undefined, and Buffer.from(undefined)
\* throws a TypeError.
vaultNormalize(signature) ==
  LET fields == split(signature, Colon) IN
  IF Len(fields) < SigFieldIndex + 1
  THEN Err("TypeError: first argument must be a string")
  ELSE Ok(base64Decode(fields[SigFieldIndex + 1]))

(***************************************************************************)
(* Digests.  The keccak256 package is a library; its digest is modelled by *)
(* a 32-byte string determined by the algorithm and the message, a         *)
(* different one per algorithm.                                            *)
(***************************************************************************)
DigestLen == 32

RECURSIVE Absorb(_, _)
Absorb(msg, h) ==
  IF msg = <<>> THEN h
  ELSE Absorb(Tail(msg), (h * 31 + msg[1] + 1) % 65521)

Digest(msg, seed) ==
  LET h == Absorb(msg, seed) IN
  [i \in 1..DigestLen |-> (h * (i + seed) + i) % 256]

keccak256(msg) == Digest(msg, 3)

\* The digest the ledger does not verify against.
sha256(msg) == Digest(msg, 2)

\* Faulty variant of the digest step: the digest the request field names.
kmsDigestSha(bytesToSign) == sha256(bytesToSign)

\* azureSigner: const digest = keccak256(bytesToSign)
azureDigest(bytesToSign) == keccak256(bytesToSign)

\* kmsSigner: const digest = keccak256(bytesToSign)
kmsDigest(bytesToSign) == keccak256(bytesToSign)

\* vaultSigner: Buffer.from(bytesToSign).toString("base64")
vaultInput(bytesToSign) == base64Encode(bytesToSign)

(***************************************************************************)
(* Public keys.  A secp256k1 key is a point (x, y) of 32-byte coordinates; *)
(* the points drawn here stand for points of the curve (the curve equation *)
(* is not evaluated).                                                      *)
(***************************************************************************)
KeyX == [i \in 1..CoordLen |-> (i * 11 + 5) % 256]

KeyY == [i \in 1..CoordLen |-> (i * 13 + 200) % 256]

Ed25519Key == [i \in 1..CoordLen |-> (i * 3 + 1) % 256]

\* A native key as a backend returns it; the fields a backend does not use
\* stay empty.
NoKey == [id |-> "", kty |-> "", crv |-> "", x |-> <<>>, y |-> <<>>,
          pem |-> <<>>, public_key |-> <<>>]

HexDigit(v) == IF v < 10 THEN 48 + v ELSE 97 + (v - 10)

\* Buffer.prototype.toString("hex")
toHex(b) ==
  [j \in 1..(2 * Len(b)) |->
     IF j % 2 = 1 THEN HexDigit(b[(j + 1) \div 2] \div 16)
     ELSE HexDigit(b[j \div 2] % 16)]

\* SubjectPublicKeyInfo of an uncompressed secp256k1 point:
\* SEQUENCE { SEQUENCE { id-ecPublicKey, secp256k1 }, BIT STRING 04 X Y }
SpkiPrefix == <<48, 86, 48, 16, 6, 7, 42, 134, 72, 206, 61, 2, 1,
                6, 5, 43, 129, 4, 0, 10, 3, 66, 0, 4>>

spkiDer(x, y) == SpkiPrefix \o x \o y

\* A KeyObject: the point as two numbers (magnitudes).
KeyObject(x, y) == [x |-> StripZeros(x), y |-> StripZeros(y)]

\* publicKey.export({ type: "spki", format: "der" }): the coordinates at the
\* field length.
exportSpkiDer(keyObject) ==
  spkiDer(toArray(keyObject.x, CoordLen).val, toArray(keyObject.y, CoordLen).val)

\* Buffer.prototype.toString("base64url"): URL-safe alphabet, no padding.
base64urlEncode(b) ==
  LET url(ch) == IF ch = 43 THEN 45 ELSE IF ch = 47 THEN 95 ELSE ch
      std == base64Encode(b)
      kept == SelectSeq(std, LAMBDA ch : ch # Equals)
  IN [i \in 1..Len(kept) |-> url(kept[i])]

\* Faulty variant: the curve name is left as the vault gave it.
azureJwkKeepCrv(jwk) ==
  [jwk EXCEPT !.kty = "EC",
              !.x = base64urlEncode(jwk.x), !.y = base64urlEncode(jwk.y)]

\* fetchAzurePublicKey: the rewrite of the vault's JWK in place
\*   jwk.kty = 'EC'; jwk.crv = 'secp256k1';
\*   jwk.x = jwk.x.toString('base64url'); jwk.y = jwk.y.toString('base64url')
azureJwk(jwk) ==
  [jwk EXCEPT !.kty = "EC", !.crv = "secp256k1",
              !.x = base64urlEncode(jwk.x), !.y = base64urlEncode(jwk.y)]

\* crypto.createPublicKey({ key: jwk, format: "jwk" }): the key type and the
\* curve must be ones Node knows; x and y are decoded as base64url text (the
\* decoder is lenient) into the numbers of a coordinate.
createPublicKeyJwk(jwk) ==
  IF jwk.kty # "EC" THEN Err("ERR_INVALID_ARG_VALUE")
  ELSE IF jwk.crv \notin {"P-256", "secp256k1", "P-384", "P-521"}
  THEN Err("ERR_CRYPTO_JWK_UNSUPPORTED_CURVE")
  ELSE LET x == StripZeros(base64Decode(jwk.x))
           y == StripZeros(base64Decode(jwk.y))
       IN IF Len(x) > CoordLen \/ Len(y) > CoordLen
          THEN Err("ERR_CRYPTO_INVALID_JWK")
          ELSE Ok(KeyObject(x, y))

\* "-----BEGIN PUBLIC KEY-----" and "-----END PUBLIC KEY-----"
PemDashes == <<45, 45, 45, 45, 45>>

PemLabel == <<80, 85, 66, 76, 73, 67, 32, 75, 69, 89>>

PemBegin == PemDashes \o <<66, 69, 71, 73, 78, 32>> \o PemLabel \o PemDashes

PemEnd == PemDashes \o <<69, 78, 68, 32>> \o PemLabel \o PemDashes

\* Characters per line of a PEM body.
PemLineLen == 64

\* The PEM text of a DER: the armor lines around the base64 of the DER,
\* broken into lines.
pemEncode(der) ==
  LET b64 == base64Encode(der)
      full == Len(b64) \div PemLineLen
      lines == IF Len(b64) % PemLineLen = 0 THEN full ELSE full + 1
      n == Len(b64) + lines
      body == [j \in 1..n |->
                 IF j % (PemLineLen + 1) = 0 \/ j = n THEN 10
                 ELSE b64[j - (j \div (PemLineLen + 1))]]
  IN PemBegin \o <<10>> \o body \o PemEnd \o <<10>>

\* The DER inside a PEM text: what stands between the armor lines, decoded.
pemDecode(pem) ==
  LET hl == Len(PemBegin)
      fl == Len(PemEnd)
      n == Len(pem)
  IN IF n < hl + fl + 2 \/ SubSeq(pem, 1, hl) # PemBegin \/ pem[hl + 1] # 10
        \/ SubSeq(pem, n - fl, n - 1) # PemEnd
     THEN Err("ERR_OSSL_PEM_NO_START_LINE")
     ELSE Ok(base64Decode(SubSeq(pem, hl + 2, n - fl - 1)))

\* crypto.createPublicKey(pem): the SubjectPublicKeyInfo of an uncompressed
\* secp256k1 point.
createPublicKeyPem(pem) ==
  LET der == pemDecode(pem) IN
  IF ~der.ok THEN der
  ELSE IF Len(der.val) = Len(SpkiPrefix) + 2 * CoordLen
          /\ SubSeq(der.val, 1, Len(SpkiPrefix)) = SpkiPrefix
  THEN Ok(KeyObject(SubSeq(der.val, Len(SpkiPrefix) + 1, Len(SpkiPrefix) + CoordLen),
                    SubSeq(der.val, Len(SpkiPrefix) + CoordLen + 1, Len(der.val))))
  ELSE Err("ERR_OSSL_UNSUPPORTED")

\* fetchAzurePublicKey, after the await: the JWK is rewritten, parsed by
\* createPublicKey, exported as SPKI DER and handed to PublicKey.fromString
\* as hex.
fetchAzureKeyResult(jwk) ==
  LET publicKey == createPublicKeyJwk(azureJwk(jwk)) IN
  IF publicKey.ok THEN Ok(toHex(exportSpkiDer(publicKey.val))) ELSE publicKey

\* fetchKmsPublicKey, after the await: createPublicKey(pem), export as SPKI
\* DER, hex.
fetchKmsKeyResult(key) ==
  LET publicKey == createPublicKeyPem(key.pem) IN
  IF publicKey.ok THEN Ok(toHex(exportSpkiDer(publicKey.val))) ELSE publicKey

\* getVaultPublicKey, after the await:
\*   PublicKey.fromString(data.data.keys["1"].public_key)
fetchVaultKeyResult(key) == Ok(key.public_key)

(***************************************************************************)
(* The backends (the environment): what each can answer.                   *)
(***************************************************************************)
CallIds == 1..MaxCalls

PayloadText == <<97, 98, 99, 100, 101, 102>>

Payloads == {SubSeq(PayloadText, 1, n) : n \in 0..MaxPayloadLen}

LeadBytes == {1, 127, 128, 255}

\* A 32-byte big-endian signature component with k leading zero bytes.
Coord(k, lead) ==
  Zeros(k) \o <<lead>> \o [i \in 1..(CoordLen - 1 - k) |-> (lead + 7 * i) % 256]

Coords == {Coord(k, lead) : k \in 0..MaxElided, lead \in LeadBytes}

\* DER INTEGER of a non-negative value: minimal octets, a 0x00 sign pad when
\* the top bit of the first octet is set.
DerInt(v) ==
  LET m == StripZeros(v)
      body == IF m = <<>> THEN <<0>>
              ELSE IF m[1] >= 128 THEN <<0>> \o m
              ELSE m
  IN <<2, Len(body)>> \o body

DerSig(r, s) == <<48, Len(DerInt(r) \o DerInt(s))>> \o DerInt(r) \o DerInt(s)

\* Malformed: a SEQUENCE that holds only its first INTEGER.
DerMissingS(r) == <<48, Len(DerInt(r))>> \o DerInt(r)

\* Malformed: an INTEGER of 33 significant octets.
DerOversize(r, s) ==
  <<48, 35 + Len(DerInt(s))>> \o <<2, 33, 1>> \o r \o DerInt(s)

\* An ed25519 signature of n bytes.
EdSig(seed, n) == [i \in 1..n |-> (seed * 17 + i * 5) % 256]

VaultWord == <<118, 97, 117, 108, 116>>

V1Word == <<118, 49>>

RECURSIVE Join(_)
Join(fields) ==
  IF Len(fields) = 1 THEN fields[1]
  ELSE fields[1] \o <<Colon>> \o Join(Tail(fields))

\* A transit signature string of n fields, the signature last.
Composite(n, sig) ==
  Join([i \in 1..n |->
         IF i = n THEN base64Encode(sig)
         ELSE IF i = 1 THEN VaultWord
         ELSE V1Word])

SigReply(bytes) == [ok |-> TRUE, err |-> "", sig |-> bytes, key |-> NoKey]

KeyReply(k) == [ok |-> TRUE, err |-> "", sig |-> <<>>, key |-> k]

Rejected(e) == [ok |-> FALSE, err |-> e, sig |-> <<>>, key |-> NoKey]

NoReply == [ok |-> FALSE, err |-> "none", sig |-> <<>>, key |-> NoKey]

\* Transport and authorization failures of any request.
Failures == {Rejected("BackendUnavailableError"), Rejected("BackendAuthError")}

\* First bytes of a coordinate: a zero byte, and bytes whose base64 text
\* differs between the standard and the URL-safe alphabet.
KeyLeads == <<0, 251, 255, 62, 191, 1, 128>>

\* Key points: the first is (KeyX, KeyY); the others vary every byte and
\* take their first bytes from KeyLeads.
KeyPoint(k) ==
  IF k = 0 THEN [x |-> KeyX, y |-> KeyY]
  ELSE [x |-> [i \in 1..CoordLen |->
                 IF i = 1 THEN KeyLeads[((k - 1) % Len(KeyLeads)) + 1]
                 ELSE (KeyX[i] + 37 * k) % 256],
        y |-> [i \in 1..CoordLen |->
                 IF i = 1 THEN KeyLeads[(k % Len(KeyLeads)) + 1]
                 ELSE (KeyY[i] + 59 * k) % 256]]

KeyPoints == {KeyPoint(k) : k \in 0..MaxKeys}

\* The native form in which a backend returns the key of a point: the vault
\* a JWK of kty "EC-HSM" and crv "P-256K" with x and y as buffers, the KMS
\* the PEM of the SubjectPublicKeyInfo.
NativeKeyOf(kind, pt) ==
  CASE kind = "hsm-vault" ->
         [NoKey EXCEPT !.id = "https://vault/keys/hedera/1", !.kty = "EC-HSM",
                       !.crv = "P-256K", !.x = pt.x, !.y = pt.y]
    [] kind = "cloud-kms" ->
         [NoKey EXCEPT !.pem = pemEncode(spkiDer(pt.x, pt.y))]
    [] OTHER ->
         [NoKey EXCEPT !.public_key = base64Encode(Ed25519Key)]

\* The key each backend holds, in its native form.
NativeKey(kind) == NativeKeyOf(kind, KeyPoint(0))

KeyRepliesOf(kind) == {KeyReply(NativeKey(kind))} \cup Failures

\* What a key fetch may be answered with, per backend.
KeyReplies == [kind \in BackendKinds |-> KeyRepliesOf(kind)]

\* What a key fetch may be answered with when the key pair is left open.
WideKeyReplies ==
  [kind \in BackendKinds |->
     {KeyReply(NativeKeyOf(kind, pt)) : pt \in KeyPoints} \cup Failures]

\* Signatures in the format each backend documents, and one malformed DER.
NativeSigs(kind) ==
  CASE kind = "hsm-vault" ->
         {Coord(1, 1) \o Coord(0, 128), Coord(0, 255) \o Coord(2, 127)}
    [] kind = "cloud-kms" ->
         {DerSig(Coord(1, 1), Coord(0, 128)),
          DerSig(Coord(0, 255), Coord(2, 127)),
          DerMissingS(Coord(1, 1))}
    [] OTHER ->
         {Composite(3, EdSig(1, SigLen)), Composite(3, EdSig(2, SigLen))}

\* Every layout a sign response may take.
WideSigs(kind) ==
  CASE kind \in {"hsm-vault", "cloud-kms"} ->
         {DerSig(r, s) : r \in Coords, s \in Coords}
         \cup {r \o s : r \in Coords, s \in {Coord(0, 128), Coord(1, 1)}}
         \cup {DerMissingS(r) : r \in Coords}
         \cup {DerOversize(r, Coord(0, 1)) : r \in Coords}
    [] OTHER ->
         {Composite(n, EdSig(1, len)) :
            n \in 1..MaxFields, len \in {0, CoordLen, SigLen - 1, SigLen}}

\* What a sign request is answered with by a backend that keeps to its
\* documented format or fails.
NativeSignReplies ==
  [kind \in BackendKinds |-> {SigReply(b) : b \in NativeSigs(kind)} \cup Failures]

\* What a sign request may be answered with when the layout is left open.
WideSignReplies == [kind \in BackendKinds |-> {SigReply(b) : b \in WideSigs(kind)}]

(***************************************************************************)
(* The signer callbacks and key fetchers as resumable calls.  A call slot  *)
(* is one invocation of an async function: it runs to its first await,     *)
(* sends a request, and resumes when the reply is settled.                 *)
(***************************************************************************)
\* `prepared` holds the bytes the signer made of its payload, `trace` the
\* steps the call has taken, in order.
IdleCall == [op |-> "none", pc |-> "idle", payload |-> <<>>, reqs |-> <<>>,
             result |-> <<>>, error |-> "", keyless |-> FALSE,
             prepared |-> <<>>, trace |-> <<>>]

Request(to, op, key, field, body) ==
  [to |-> to, op |-> op, key |-> key, field |-> field, body |-> body]

Awaiting == {"awaitKey", "awaitSign", "awaitFetch"}

Finished == {"done", "error"}

KeyFetchOps == {"getKey", "getPublicKey", "GET /v1/transit/keys/hedera-key"}

SignOps == {"sign", "asymmetricSign", "POST /v1/transit/sign/hedera-key"}

Last(seq) == seq[Len(seq)]

\* Whether getPublicKey has been invoked on this adapter.
KeyRequested == \E d \in CallIds : calls[d].op = "getPublicKey"

\* azureSigner up to its first await: keyClient.getKey(AZURE_KEY_NAME).
azureSignerStart(call, bytesToSign) ==
  [call EXCEPT !.op = "sign", !.payload = bytesToSign, !.pc = "awaitKey",
               !.reqs = <<Request("hsm-vault", "getKey", "AZURE_KEY_NAME", "", <<>>)>>,
               !.trace = <<"keyRequest">>]

\* azureSigner between its awaits: the CryptographyClient is built on the
\* fetched key's id, the digest is taken, cryptoClient.sign is sent.
azureSignerSign(call, key) ==
  LET digest == azureDigest(call.payload) IN
  [call EXCEPT !.pc = "awaitSign", !.prepared = digest,
               !.reqs = Append(@, Request("hsm-vault", "sign", key.id, "ES256K", digest)),
               !.trace = @ \o <<"prepare", "signRequest">>]

\* Faulty variant: the request is sent on the payload before the digest is
\* taken.
kmsSignerStartLate(call, bytesToSign) ==
  [call EXCEPT !.op = "sign", !.payload = bytesToSign, !.pc = "awaitSign",
               !.prepared = kmsDigest(bytesToSign),
               !.reqs = <<Request("cloud-kms", "asymmetricSign", "GCP_KMS_KEY_VERSION",
                                  "digest.sha256", bytesToSign)>>,
               !.trace = <<"signRequest", "prepare">>]

\* kmsSigner up to its await: the digest, then kmsClient.asymmetricSign.
kmsSignerStart(call, bytesToSign) ==
  LET digest == kmsDigest(bytesToSign) IN
  [call EXCEPT !.op = "sign", !.payload = bytesToSign, !.pc = "awaitSign",
               !.prepared = digest,
               !.reqs = <<Request("cloud-kms", "asymmetricSign", "GCP_KMS_KEY_VERSION",
                                  "digest.sha256", digest)>>,
               !.trace = <<"prepare", "signRequest">>]

\* vaultSigner up to its await: the base64 input, then
\* axios.post("/v1/transit/sign/hedera-key").
vaultSignerStart(call, bytesToSign) ==
  LET input == vaultInput(bytesToSign) IN
  [call EXCEPT !.op = "sign", !.payload = bytesToSign, !.pc = "awaitSign",
               !.prepared = input,
               !.reqs = <<Request("secret-transit", "POST /v1/transit/sign/hedera-key",
                                  "hedera-key", "input", input)>>,
               !.trace = <<"prepare", "signRequest">>]

\* Faulty variant: a signer that refuses to run before a key was fetched.
signerStartNeedsKey(kind, call, bytesToSign) ==
  IF ~\E d \in CallIds : calls[d].op = "getPublicKey" /\ calls[d].pc = "done"
  THEN [call EXCEPT !.op = "sign", !.payload = bytesToSign, !.pc = "error",
                    !.error = "public key not cached", !.trace = <<"throw">>]
  ELSE CASE kind = "hsm-vault" -> azureSignerStart(call, bytesToSign)
         [] kind = "cloud-kms" -> kmsSignerStart(call, bytesToSign)
         [] OTHER -> vaultSignerStart(call, bytesToSign)

\* The signer the running script hands to setOperatorWith.
signerStart(kind, call, bytesToSign) ==
  CASE kind = "hsm-vault" -> azureSignerStart(call, bytesToSign)
    [] kind = "cloud-kms" -> kmsSignerStart(call, bytesToSign)
    [] OTHER -> vaultSignerStart(call, bytesToSign)

\* fetchAzurePublicKey / fetchKmsPublicKey / getVaultPublicKey up to the await.
fetchStart(kind, call) ==
  [call EXCEPT !.op = "getPublicKey", !.pc = "awaitFetch", !.trace = <<"keyRequest">>,
               !.reqs = <<CASE kind = "hsm-vault" ->
                                 Request("hsm-vault", "getKey", "AZURE_KEY_NAME", "", <<>>)
                            [] kind = "cloud-kms" ->
                                 Request("cloud-kms", "getPublicKey", "GCP_KMS_KEY_VERSION",
                                         "", <<>>)
                            [] OTHER ->
                                 Request("secret-transit", "GET /v1/transit/keys/hedera-key",
                                         "hedera-key", "", <<>>)>>]

\* The signer's normalization of a sign response.
signerNormalize(kind, sig) ==
  CASE kind = "hsm-vault" -> azureNormalize(sig)
    [] kind = "cloud-kms" -> kmsNormalize(sig)
    [] OTHER -> vaultNormalize(sig)

fetchResult(kind, key) ==
  CASE kind = "hsm-vault" -> fetchAzureKeyResult(key)
    [] kind = "cloud-kms" -> fetchKmsKeyResult(key)
    [] OTHER -> fetchVaultKeyResult(key)

\* The two conversions tabulated over the responses the backends draw from,
\* so that each is computed once; the values are those of signerNormalize
\* and fetchResult.
SignOutcomes ==
  [kind \in BackendKinds |->
     [sig \in NativeSigs(kind) \cup WideSigs(kind) |-> signerNormalize(kind, sig)]]

FetchOutcomes ==
  [kind \in BackendKinds |->
     [key \in {NativeKeyOf(kind, pt) : pt \in KeyPoints} |-> fetchResult(kind, key)]]

signerOutcome(kind, sig) ==
  IF sig \in DOMAIN SignOutcomes[kind] THEN SignOutcomes[kind][sig]
  ELSE signerNormalize(kind, sig)

fetchOutcome(kind, key) ==
  IF key \in DOMAIN FetchOutcomes[kind] THEN FetchOutcomes[kind][key]
  ELSE fetchResult(kind, key)

\* The response is normalized and the async function returns the normalized
\* value, or throws what the normalization threw.
Settle(call, outcome) ==
  IF outcome.ok
  THEN [call EXCEPT !.pc = "done", !.result = outcome.val,
                    !.trace = @ \o <<"normalize", "return">>]
  ELSE [call EXCEPT !.pc = "error", !.error = outcome.err,
                    !.trace = @ \o <<"normalize", "throw">>]

\* Faulty variant: a failed request is sent again.
OnRejectedRetry(call, rep) == [call EXCEPT !.reqs = Append(@, Last(@))]

\* A rejected await: no try/catch in any signer or fetcher, so the call
\* rejects with the transport's error.
OnRejected(call, rep) ==
  [call EXCEPT !.pc = "error", !.error = rep.err, !.trace = Append(@, "throw")]

\* Faulty variant: the reply is read from a slot shared by all calls.
ReplyForShared(c) ==
  replies[CHOOSE d \in CallIds : replies[d] # NoReply
                                 /\ \A e \in CallIds : replies[e] # NoReply => d <= e]

\* The reply a continuation resumes with: the one of its own awaited promise.
ReplyFor(c) == replies[c]

(***************************************************************************)
(* The main flow of a script: an async function whose awaits run one after *)
(* the other, with a handler that ends the process on any rejection.       *)
(***************************************************************************)
\* The awaited steps of main, in program order.  The transit script has no
\* final balance query.
Flow(kind) ==
  IF kind = "secret-transit"
  THEN <<"fetchKey", "createAccount", "accountReceipt", "balance", "transfer",
         "transferReceipt">>
  ELSE <<"fetchKey", "createAccount", "accountReceipt", "balance", "transfer",
         "transferReceipt", "finalBalance">>

\* Steps executed on the client built by setOperatorWith(id, key, signer),
\* and whether the SDK has the operator sign in them: a transaction is
\* signed, a query may be.
SignerUse(step) ==
  CASE step = "transfer" -> "must"
    [] step \in {"balance", "transferReceipt", "finalBalance"} -> "may"
    [] OTHER -> "none"

\* phase: "begin" (the step's call is being made), "call" (a key fetch or the
\* signer callback is awaited), "signed" (the signer has returned), "ledger"
\* (the network's answer is awaited), "done" (main returned), "exited".
MainStart ==
  [at |-> 1, phase |-> "begin", exitCode |-> 0, publicKey |-> <<>>,
   accountId |-> "", error |-> "", log |-> <<>>]

Event(step, ev) == [step |-> step, ev |-> ev]

\* The step main is at.
StepOf(m) == Flow(backend)[m.at]

\* Faulty variant: the handler reports the error and lets the process end on
\* its own.
OnMainErrorNoExit(m, err) ==
  [m EXCEPT !.phase = "done", !.error = err,
            !.log = Append(@, Event(StepOf(m), "failed"))]

\* main().catch(error => { console.error(...); process.exit(1) }), and the
\* catch block of the transit script: the step's rejection ends the process.
OnMainError(m, err) ==
  [m EXCEPT !.phase = "exited", !.exitCode = 1, !.error = err,
            !.log = @ \o <<Event(StepOf(m), "failed"), Event(StepOf(m), "exit")>>]

\* The await of a step returns: main goes on to the next statement, or
\* returns after the last.
Advance(m) ==
  LET logged == [m EXCEPT !.log = Append(@, Event(StepOf(m), "ok"))] IN
  IF m.at = Len(Flow(backend)) THEN [logged EXCEPT !.phase = "done"]
  ELSE [logged EXCEPT !.at = @ + 1, !.phase = "begin"]

\* The receipt of the account creation: the Azure and KMS scripts throw
\* when it has no account id, the transit script calls toString() on it.
OnAccountReceipt(m, accountId) ==
  IF accountId = ""
  THEN OnMainError(m, IF backend = "secret-transit"
                      THEN "TypeError: Cannot read properties of null"
                      ELSE "Account creation failed.")
  ELSE Advance([m EXCEPT !.accountId = accountId])

\* Account ids a receipt may carry; "" stands for none.
AccountIds == {"", "0.0.7001"}

(***************************************************************************)
(* Actions.                                                                *)
(***************************************************************************)
Init ==
  /\ backend \in BackendKinds
  /\ calls = [c \in CallIds |-> IdleCall]
  /\ replies = [c \in CallIds |-> NoReply]
  /\ sent = [c \in CallIds |-> <<>>]
  /\ main = MainStart

\* Call slots are taken in the order of invocation.
NextSlot(c) ==
  /\ calls[c].pc = "idle"
  /\ \A d \in CallIds : d < c => calls[d].pc # "idle"

\* The SDK invokes the signer callback on some bytes.
CallSign(c, bytesToSign) ==
  /\ NextSlot(c)
  /\ calls' = [calls EXCEPT
                 ![c] = [signerStart(backend, @, bytesToSign)
                           EXCEPT !.keyless = ~KeyRequested]]
  /\ UNCHANGED <<backend, replies, sent, main>>

\* The script invokes its key fetcher.
CallGetPublicKey(c) ==
  /\ NextSlot(c)
  /\ calls' = [calls EXCEPT ![c] = fetchStart(backend, @)]
  /\ UNCHANGED <<backend, replies, sent, main>>

\* The backend settles the outstanding request of call c.
BackendReply(c, keyPool, signPool) ==
  /\ calls[c].pc \in Awaiting
  /\ replies[c] = NoReply
  /\ \E rep \in (IF Last(calls[c].reqs).op \in KeyFetchOps THEN keyPool ELSE signPool) :
       /\ replies' = [replies EXCEPT ![c] = rep]
       /\ sent' = [sent EXCEPT ![c] = Append(@, rep)]
  /\ UNCHANGED <<backend, calls, main>>

\* A call resumes from a rejected await.
ResumeRejected(c) ==
  /\ replies[c] # NoReply
  /\ ~ReplyFor(c).ok
  /\ calls' = [calls EXCEPT ![c] = OnRejected(@, ReplyFor(c))]
  /\ replies' = [replies EXCEPT ![c] = NoReply]
  /\ UNCHANGED <<backend, sent, main>>

\* azureSigner resumes with the key and sends the sign request.
ResumeAzureKey(c) ==
  /\ replies[c] # NoReply
  /\ ReplyFor(c).ok
  /\ calls[c].pc = "awaitKey"
  /\ calls' = [calls EXCEPT ![c] = azureSignerSign(@, ReplyFor(c).key)]
  /\ replies' = [replies EXCEPT ![c] = NoReply]
  /\ UNCHANGED <<backend, sent, main>>

\* A signer resumes with the sign response and returns or throws.
ResumeSign(c) ==
  /\ replies[c] # NoReply
  /\ ReplyFor(c).ok
  /\ calls[c].pc = "awaitSign"
  /\ calls' = [calls EXCEPT ![c] = Settle(@, signerOutcome(backend, ReplyFor(c).sig))]
  /\ replies' = [replies EXCEPT ![c] = NoReply]
  /\ UNCHANGED <<backend, sent, main>>

\* A key fetcher resumes with the native key and returns or throws.
ResumeFetch(c) ==
  /\ replies[c] # NoReply
  /\ ReplyFor(c).ok
  /\ calls[c].pc = "awaitFetch"
  /\ calls' = [calls EXCEPT ![c] = Settle(@, fetchOutcome(backend, ReplyFor(c).key))]
  /\ replies' = [replies EXCEPT ![c] = NoReply]
  /\ UNCHANGED <<backend, sent, main>>

Resume(c) ==
  \/ ResumeRejected(c)
  \/ ResumeAzureKey(c)
  \/ ResumeSign(c)
  \/ ResumeFetch(c)

Next ==
  \E c \in CallIds :
    \/ \E b \in Payloads : CallSign(c, b)
    \/ CallGetPublicKey(c)
    \/ BackendReply(c, KeyReplies[backend], NativeSignReplies[backend])
    \/ Resume(c)

Spec == Init /\ [][Next]_vars

\* The same calls on one payload: progress does not depend on the bytes.
FairNext ==
  \E c \in CallIds :
    \/ CallSign(c, <<97, 98, 99>>)
    \/ CallGetPublicKey(c)
    \/ BackendReply(c, KeyReplies[backend], NativeSignReplies[backend])
    \/ Resume(c)

\* Every settled reply is eventually delivered, and the backend eventually
\* answers or fails every request: the event loop runs every ready
\* continuation.
FairSpec ==
  /\ Init
  /\ [][FairNext]_vars
  /\ \A c \in CallIds :
       /\ WF_vars(Resume(c))
       /\ WF_vars(BackendReply(c, KeyReplies[backend], NativeSignReplies[backend]))

\* One call at a time against every response layout.
CodecNext ==
  \/ \E b \in Payloads : CallSign(1, b)
  \/ CallGetPublicKey(1)
  \/ BackendReply(1, KeyReplies[backend], WideSignReplies[backend])
  \/ Resume(1)

CodecSpec == Init /\ [][CodecNext]_vars

\* The calls against every key pair a backend may hold.
KeyNext ==
  \E c \in CallIds :
    \/ CallSign(c, <<97, 98, 99>>)
    \/ CallGetPublicKey(c)
    \/ BackendReply(c, WideKeyReplies[backend], NativeSignReplies[backend])
    \/ Resume(c)

KeySpec == Init /\ [][KeyNext]_vars

\* The call slot main awaits: main has one call in flight at a time.
MainSlot == 1

\* The slot of a settled call is free again once main has taken its outcome.
Release(c) ==
  /\ calls' = [calls EXCEPT ![c] = IdleCall]
  /\ sent' = [sent EXCEPT ![c] = <<>>]

\* main calls its key fetcher.
MainFetchKey ==
  /\ main.phase = "begin"
  /\ StepOf(main) = "fetchKey"
  /\ NextSlot(MainSlot)
  /\ calls' = [calls EXCEPT ![MainSlot] = fetchStart(backend, @)]
  /\ main' = [main EXCEPT !.phase = "call",
                          !.log = Append(@, Event("fetchKey", "begin"))]
  /\ UNCHANGED <<backend, replies, sent>>

\* Inside execute on the new account's client, the SDK invokes the signer
\* callback the script gave to setOperatorWith.
MainInvokeSigner(bytesToSign) ==
  /\ main.phase = "begin"
  /\ SignerUse(StepOf(main)) # "none"
  /\ NextSlot(MainSlot)
  /\ calls' = [calls EXCEPT ![MainSlot] = signerStart(backend, @, bytesToSign)]
  /\ main' = [main EXCEPT !.phase = "call",
                          !.log = @ \o <<Event(StepOf(main), "begin"),
                                         Event(StepOf(main), "signer")>>]
  /\ UNCHANGED <<backend, replies, sent>>

\* The awaited key fetch or signer call has settled: the key is kept, the
\* signed request goes on, or the rejection reaches main's handler.
MainCallSettled ==
  /\ main.phase = "call"
  /\ calls[MainSlot].pc \in Finished
  /\ main' = IF calls[MainSlot].pc = "error"
             THEN OnMainError(main, calls[MainSlot].error)
             ELSE IF StepOf(main) = "fetchKey"
             THEN Advance([main EXCEPT !.publicKey = calls[MainSlot].result])
             ELSE [main EXCEPT !.phase = "signed"]
  /\ Release(MainSlot)
  /\ UNCHANGED <<backend, replies>>

\* The step's transaction or query is sent to the network.
MainExecute ==
  /\ StepOf(main) # "fetchKey"
  /\ \/ main.phase = "signed"
     \/ main.phase = "begin" /\ SignerUse(StepOf(main)) # "must"
  /\ main' = [main EXCEPT !.phase = "ledger",
                          !.log = IF main.phase = "begin"
                                  THEN Append(@, Event(StepOf(main), "begin"))
                                  ELSE @]
  /\ UNCHANGED <<backend, calls, replies, sent>>

\* The network answers the step: with a failure, or with its result (for
\* the receipt of the account creation, one with or without an account id).
LedgerReply(ok, accountId) ==
  /\ main.phase = "ledger"
  /\ main' = IF ~ok THEN OnMainError(main, "StatusError")
             ELSE IF StepOf(main) = "accountReceipt"
             THEN OnAccountReceipt(main, accountId)
             ELSE Advance(main)
  /\ UNCHANGED <<backend, calls, replies, sent>>

\* One run of a script.  After process.exit, and after main has returned,
\* no continuation runs.
MainNext ==
  /\ main.phase \notin {"done", "exited"}
  /\ \/ MainFetchKey
     \/ \E b \in Payloads : MainInvokeSigner(b)
     \/ MainCallSettled
     \/ MainExecute
     \/ \E ok \in BOOLEAN, accountId \in AccountIds : LedgerReply(ok, accountId)
     \/ BackendReply(MainSlot, KeyReplies[backend], NativeSignReplies[backend])
     \/ Resume(MainSlot)

MainSpec == Init /\ [][MainNext]_vars

(***************************************************************************)
(* Properties.                                                             *)
(***************************************************************************)
SignCalls == {c \in CallIds : calls[c].op = "sign"}

\* Sign calls that have returned or thrown after a settled sign response.
Answered(kind) ==
  {c \in SignCalls : /\ backend = kind
                     /\ calls[c].pc \in Finished
                     /\ sent[c] # <<>>
                     /\ Last(sent[c]).ok
                     /\ Last(calls[c].reqs).op \in SignOps}

C2_AlwaysSigLen ==
  \A c \in SignCalls : calls[c].pc = "done" => Len(calls[c].result) = SigLen

\* The key-fetch requests the backend has received.
KeyFetches ==
  {<<c, i>> \in CallIds \X (1..2) :
     i <= Len(calls[c].reqs) /\ calls[c].reqs[i].op \in KeyFetchOps}

\* C3: over any sequence of getPublicKey and sign calls the backend receives
\* at most one public-key fetch request.
C3_AtMostOneKeyFetch == Cardinality(KeyFetches) <= 1

\* C4: for a transit signature string of any number of colon-delimited
\* fields the signer returns the base64 decoding of the last field.
C4_LastField ==
  \A c \in Answered("secret-transit") :
    LET fields == split(Last(sent[c]).sig, Colon) IN
    /\ calls[c].pc = "done"
    /\ calls[c].result = base64Decode(fields[Len(fields)])

C6_LayoutInspected ==
  \A c \in Answered("hsm-vault") :
    LET sig == Last(sent[c]).sig IN
    IF Len(sig) = SigLen /\ sig[1] # 48
    THEN calls[c].pc = "done" /\ calls[c].result = sig
    ELSE \A r \in Coords, s \in Coords :
           sig = DerSig(r, s) => calls[c].pc = "done" /\ calls[c].result = r \o s

\* C7: a sign request to a secp256k1 backend carries the 32-byte Keccak-256
\* digest of the payload (never the SHA-256 digest, never the payload); a
\* sign request to the transit backend carries the payload itself, unhashed
\* (as base64 text).
C7_DigestPolicy ==
  \A c \in SignCalls :
    \A i \in 1..Len(calls[c].reqs) :
      LET req == calls[c].reqs[i]
          payload == calls[c].payload
      IN req.op \in SignOps =>
           IF backend \in {"hsm-vault", "cloud-kms"}
           THEN /\ req.body = keccak256(payload)
                /\ Len(req.body) = DigestLen
                /\ req.body # sha256(payload)
                /\ req.body # payload
           ELSE /\ base64Decode(req.body) = payload
                /\ base64Decode(req.body) # keccak256(payload)
                /\ base64Decode(req.body) # sha256(payload)

C7_Witness ==
  /\ \E c \in SignCalls :
       /\ backend = "cloud-kms"
       /\ calls[c].payload = <<97, 98, 99>>
       /\ calls[c].pc = "awaitSign"
       /\ Last(calls[c].reqs).body = keccak256(<<97, 98, 99>>)
       /\ Last(calls[c].reqs).field = "digest.sha256"

\* The outcome of a sign call computed from the last response sent to it.
OwnOutcome(c) ==
  LET rep == Last(sent[c]) IN
  IF ~rep.ok THEN OnRejected(calls[c], rep)
  ELSE Settle(calls[c], signerNormalize(backend, rep.sig))

\* C8: with sign calls in flight together and their responses interleaved,
\* every call that finishes does so with the normalization of the response
\* to its own request, and a step of one call leaves every other call, and
\* the signer's configuration, as they were.
C8_CallsIndependent ==
  [][/\ backend' = backend
     /\ \A c \in CallIds, d \in CallIds :
          c # d =>
            \/ calls'[c] = calls[c] /\ replies'[c] = replies[c] /\ sent'[c] = sent[c]
            \/ calls'[d] = calls[d] /\ replies'[d] = replies[d] /\ sent'[d] = sent[d]
     /\ \A c \in CallIds :
          (calls[c].op = "sign" /\ calls[c].pc = "awaitSign" /\ calls'[c].pc \in Finished)
            => calls'[c] = OwnOutcome(c)]_vars

\* Two calls on different payloads, one finished while the other's response
\* was waiting to be delivered.
C8_Witness ==
  \E c \in SignCalls, d \in SignCalls :
    /\ c # d
    /\ calls[c].payload # calls[d].payload
    /\ calls[c].pc = "done"
    /\ calls[d].pc = "awaitSign"
    /\ replies[d] # NoReply
    /\ Last(sent[c]) # Last(sent[d])

\* C9: a failed backend request ends its call in that error; no request is
\* sent a second time and none goes to another backend than the configured
\* one.
C9_NoRetryNoFallback ==
  \A c \in CallIds :
    LET q == calls[c].reqs IN
    /\ \A i \in 1..Len(q) : q[i].to = backend
    /\ \A i \in 1..Len(q), j \in 1..Len(q) : i # j => q[i].op # q[j].op
    /\ Len(sent[c]) <= Len(q)
    /\ \A i \in 1..Len(sent[c]) :
         ~sent[c][i].ok =>
           /\ i = Len(q)
           /\ replies[c] = NoReply =>
                calls[c].pc = "error" /\ calls[c].error = sent[c][i].err

C9_Witness ==
  \E c \in SignCalls :
    /\ backend = "hsm-vault"
    /\ Len(calls[c].reqs) = 2
    /\ Len(sent[c]) = 2
    /\ ~sent[c][2].ok
    /\ calls[c].pc = "error"
    /\ calls[c].error = "BackendUnavailableError"

\* Sign responses in the format the backend documents.
HealthySigs ==
  [kind \in BackendKinds |->
     CASE kind = "hsm-vault" -> {r \o s : r \in Coords, s \in Coords}
       [] kind = "cloud-kms" -> {DerSig(r, s) : r \in Coords, s \in Coords}
       [] OTHER -> {Composite(3, EdSig(seed, SigLen)) : seed \in 1..2}]

\* The backend failed call c: a rejected request or a malformed signature.
Unhealthy(c) ==
  \E i \in 1..Len(sent[c]) :
    \/ ~sent[c][i].ok
    \/ sent[c][i].key = NoKey /\ sent[c][i].sig \notin HealthySigs[backend]

\* C10: a sign call made before getPublicKey was ever invoked completes
\* with a signature whenever the backend is healthy.
C10_SignBeforeKey ==
  \A c \in CallIds :
    [](calls[c].op = "sign" /\ calls[c].keyless
         => <>(calls[c].pc = "done" \/ Unhealthy(c)))

C10_Witness ==
  \E c \in SignCalls :
    /\ calls[c].keyless
    /\ ~KeyRequested
    /\ ~Unhealthy(c)
    /\ calls[c].pc = "done"
    /\ Len(calls[c].result) = SigLen

\* Completed key fetches, and the point whose key a fetch was answered with.
FetchCalls == {c \in CallIds : calls[c].op = "getPublicKey" /\ calls[c].pc \in Finished}

FetchedPoint(c, pt) ==
  /\ sent[c] # <<>>
  /\ Last(sent[c]) = KeyReply(NativeKeyOf(backend, pt))

\* C11: for one key point (x, y), the normalization of the vault's JWK
\* (kty "EC-HSM", crv "P-256K", x and y as buffers) returns the same hex
\* SPKI DER as the normalization of the cloud KMS's PEM of that point: a
\* fetch on either backend answered with the key of the point returns what
\* the other backend's fetcher makes of its own form of the point.
C11_JwkPemSameKey ==
  \A c \in FetchCalls : \A pt \in KeyPoints :
    /\ (backend = "hsm-vault" /\ FetchedPoint(c, pt))
         => /\ calls[c].pc = "done"
            /\ Ok(calls[c].result) = fetchKmsKeyResult(NativeKeyOf("cloud-kms", pt))
    /\ (backend = "cloud-kms" /\ FetchedPoint(c, pt))
         => /\ calls[c].pc = "done"
            /\ Ok(calls[c].result) = fetchAzureKeyResult(NativeKeyOf("hsm-vault", pt))

\* A vault fetch has returned the key of a point whose x starts with a zero
\* byte and whose base64 text of y uses a character the URL-safe alphabet
\* replaces.
C11_Witness ==
  /\ backend = "hsm-vault"
  /\ \E c \in FetchCalls : \E pt \in KeyPoints :
       /\ FetchedPoint(c, pt)
       /\ calls[c].pc = "done"
       /\ pt.x[1] = 0
       /\ \E i \in 1..Len(base64Encode(pt.y)) : base64Encode(pt.y)[i] \in {43, 47}
       /\ calls[c].result = toHex(spkiDer(pt.x, pt.y))

\* The steps of a sign call that the order is about, as the call took them.
SignSteps(c) ==
  SelectSeq(calls[c].trace,
            LAMBDA st : st \in {"prepare", "signRequest", "normalize", "verify"})

SignRequests(c) == SelectSeq(calls[c].reqs, LAMBDA r : r.op \in SignOps)

\* C12: within each sign call the payload is prepared, then one sign request
\* carrying the prepared bytes is sent, then that request's response is
\* normalized, each once and in this order; the call returns the normalized
\* signature (or throws what the normalization threw), and it has no step
\* that verifies the signature and sends no request after the sign request.
C12_SignStepOrder ==
  \A c \in SignCalls :
    LET t == SignSteps(c)
        q == SignRequests(c)
    IN /\ t = SubSeq(<<"prepare", "signRequest", "normalize">>, 1, Len(t))
       /\ Len(q) = (IF Len(t) >= 2 THEN 1 ELSE 0)
       /\ Len(q) = 1 => /\ q[1].body = calls[c].prepared
                        /\ Last(calls[c].reqs) = q[1]
       /\ calls[c].pc = "done" => c \in Answered(backend)
       /\ c \in Answered(backend) =>
            LET outcome == signerOutcome(backend, Last(sent[c]).sig) IN
            /\ Len(t) = 3
            /\ outcome.ok => calls[c].pc = "done" /\ calls[c].result = outcome.val
            /\ ~outcome.ok => calls[c].pc = "error" /\ calls[c].error = outcome.err

\* The vault signer has returned after its key request, the digest, the sign
\* request and the normalization, in this order, and a sign call of another
\* invocation has thrown on a rejected sign request without normalizing.
C12_Witness ==
  /\ \E c \in Answered("hsm-vault") :
       /\ calls[c].pc = "done"
       /\ calls[c].trace = <<"keyRequest", "prepare", "signRequest", "normalize", "return">>
       /\ calls[c].reqs[2].body = keccak256(calls[c].payload)
       /\ calls[c].result = Last(sent[c]).sig
  /\ \E d \in SignCalls :
       /\ calls[d].pc = "error"
       /\ calls[d].trace = <<"keyRequest", "prepare", "signRequest", "throw">>

\* Positions of an event in main's log.
LogAt(step, ev) == {i \in 1..Len(main.log) : main.log[i] = Event(step, ev)}

Failed == {i \in 1..Len(main.log) : main.log[i].ev = "failed"}

\* The signer is invoked only after the key fetch and the receipt of the
\* account creation succeeded; after a failed step the log holds the exit
\* and nothing else, and the process has ended with exit code 1 with no
\* request in flight.
MainOrdered ==
  /\ \A i \in 1..Len(main.log) :
       main.log[i].ev = "signer" =>
         /\ \E j \in LogAt("fetchKey", "ok") : j < i
         /\ \E j \in LogAt("accountReceipt", "ok") : j < i
  /\ \A c \in CallIds :
       calls[c].op = "sign" => main.publicKey # <<>> /\ main.accountId # ""
  /\ \A i \in Failed :
       /\ i + 1 = Len(main.log)
       /\ main.log[i + 1].ev = "exit"
       /\ main.phase = "exited"
  /\ main.phase = "exited" =>
       /\ main.exitCode = 1
       /\ Failed # {}
       /\ \A c \in CallIds : calls[c].pc \notin Awaiting /\ replies[c] = NoReply
  /\ Failed = {} => main.exitCode = 0

\* C13: in each script's main flow the signer callback is invoked only after
\* the key fetch has succeeded and the account creation has returned a
\* receipt with an account id; when a step fails no later step runs, no
\* further request is sent and the process ends with exit code 1: every
\* step of the run keeps MainOrdered and none starts from the exited state.
C13_MainFlowOrder == [][MainOrdered' /\ main.phase # "exited"]_vars

\* A run has ended with exit code 1 on a failed transfer after the signer
\* had signed the transaction.
C13_Witness ==
  /\ main.phase = "exited"
  /\ main.exitCode = 1
  /\ LogAt("transfer", "signer") # {}
  /\ LogAt("transfer", "failed") # {}
  /\ LogAt("accountReceipt", "ok") # {}

====
